---------------------------- MODULE Spec2Model ----------------------------
(***************************************************************************)
(* A model of the load-balancer simulator: the dispatcher                  *)
(* (app/load_balancer.py, LoadBalancer), the simulated backend             *)
(* (app/servers/server.py, RealServer), the health monitor                 *)
(* (app/load_balancer.py, HealthChecker) and the operations of app/app.py: *)
(* start_simulation, stop_simulation and send_request.                     *)
(*                                                                         *)
(* Backends are numbered 0..NumServers-1 in pool (insertion) order, as     *)
(* start_simulation creates them ("S0", "S1", ...).  Python's None for a   *)
(* server is NoServer.                                                     *)
(***************************************************************************)
EXTENDS Integers, Sequences, FiniteSets, TLC

(***************************************************************************)
(* Program constants and the bounds of the model.                          *)
(***************************************************************************)
NumServers == 3        \* data.get('num_servers', 3)
NoServer == -1         \* select_server's "return None"
PoolSize == 2          \* bound: num_servers of a concurrent run
NumClients == 2        \* bound: threads that run send_request concurrently
MaxRequests == 2       \* bound: send_request calls of a concurrent run
SeqRequests == 6       \* bound: send_request calls of a sequential run
PoolRequests == 11     \* bound: send_request calls of a run that fills a pool
MaxOps == 3            \* bound: /api/start and /api/stop requests of a run
LifeRequests == 1      \* bound: send_request calls of a run with starts and stops
MaxHash == 1           \* bound: generic hash values lie in -MaxHash..MaxHash
max_workers == 10      \* ThreadPoolExecutor(max_workers=10)

Clients == 1 .. NumClients
\* servers as start_simulation builds it: backends 0 .. n-1 in order
PoolOf(n) == [i \in 1 .. n |-> i - 1]
Algorithms == {"round_robin", "least_connections", "ip_hash", "random"}
FailRates == {0, 50}
TickRates == {0, 1, 50, 99, 100}
Draws == 1 .. 100                              \* random.randint(1, 100)
\* The least and the greatest draw: between them they produce every outcome
\* of a tick that some draw produces, for every fail_rate.
TickDraws == {1, 100}
HashVals == (0 - MaxHash) .. MaxHash

Range(f) == {f[i] : i \in DOMAIN f}

(***************************************************************************)
(* Client identifiers.  A Python str is modelled by the list of its        *)
(* '.'-separated parts (what str.split('.') returns); a part is either a   *)
(* decimal integer literal (num = TRUE, v its value) or some other token   *)
(* (num = FALSE; token 0 is the empty token).  A Python int (the client    *)
(* port) is an identifier of kind "int".                                   *)
(***************************************************************************)
Num(v) == [num |-> TRUE, v |-> v]
Word(v) == [num |-> FALSE, v |-> v]
Str(parts) == [kind |-> "str", parts |-> parts, n |-> 0]
IntId(n) == [kind |-> "int", parts |-> << >>, n |-> n]

EmptyStr == Str(<<Word(0)>>)                          \* ""
TestRequest == Str(<<Word(1)>>)                       \* "Test request"
HostName == Str(<<Word(2), Word(3)>>)                 \* "a.b"
Localhost == Str(<<Num(127), Num(0), Num(0), Num(1)>>) \* "127.0.0.1"
TenNet == Str(<<Num(10), Num(0), Num(0), Num(2)>>)    \* "10.0.0.2"
FiveParts == Str(<<Num(1), Num(2), Num(3), Num(4), Num(5)>>) \* "1.2.3.4.5"

\* Python truthiness of an identifier ("client_ip or client_port").
Truthy(id) == IF id.kind = "int" THEN id.n # 0 ELSE id # EmptyStr

\* isinstance(client_identifier, str) and '.' in client_identifier
HasDot(id) == id.kind = "str" /\ Len(id.parts) > 1

RECURSIVE Pow256(_)
Pow256(e) == IF e = 0 THEN 1 ELSE 256 * Pow256(e - 1)

\* sum(int(part) * (256 ** (3-i)) for i, part in enumerate(ip_parts)),
\* for at most four integer parts (i is 0-based in the code, 1-based here).
RECURSIVE QuadSum(_, _)
QuadSum(parts, i) ==
    IF i > Len(parts) THEN 0
    ELSE parts[i].v * Pow256(4 - i) + QuadSum(parts, i + 1)

\* The outcome of the dotted branch of ip_hash on a list of n > 0 servers:
\* int(part) raises ValueError on a part that is no integer literal; with
\* more than four parts 256 ** (3-i) is a float, so is the sum, and
\* indexing the list with it raises TypeError.
DottedIndex(id, n) ==
    IF \E i \in 1 .. Len(id.parts) : ~ id.parts[i].num
    THEN [err |-> "ValueError", idx |-> 0]
    ELSE IF Len(id.parts) > 4
    THEN [err |-> "TypeError", idx |-> 0]
    ELSE [err |-> "none", idx |-> QuadSum(id.parts, 1) % n]

\* hash_value % len(healthy_servers): Python's % takes the sign of the
\* divisor, as TLA+'s does.
HashIndex(h, n) == h % n

\* Mutant of ArgMinFirst: a later equal key replaces the best so far.
RECURSIVE ArgMinLast(_, _, _)
ArgMinLast(vals, i, best) ==
    IF i > Len(vals) THEN best
    ELSE ArgMinLast(vals, i + 1, IF vals[i] <= vals[best] THEN i ELSE best)

\* min(healthy_servers, key=...) over the key values in list order: the
\* position of the first minimal one.
RECURSIVE ArgMinFirst(_, _, _)
ArgMinFirst(vals, i, best) ==
    IF i > Len(vals) THEN best
    ELSE ArgMinFirst(vals, i + 1, IF vals[i] < vals[best] THEN i ELSE best)

\* Mutant of is_alive: every backend counts as alive.
is_alive_always(st) == TRUE

\* RealServer.is_alive, on the status read
is_alive(st) == st = "healthy"

\* Mutant of Eligible: the filter forgets the exclusion.
EligibleNoExclude(st, s, exclude) == is_alive(st)

\* s.is_alive() and s != exclude, for backend s with status st
Eligible(st, s, exclude) == is_alive(st) /\ s # exclude

\* healthy_servers = [s for s in self.servers if ...]
healthy_servers(pool, stat, exclude) ==
    LET Keep(s) == Eligible(stat[s], s, exclude)
    IN  SelectSeq(pool, Keep)

\* Mutant of should_fail: the comparison is strict.
should_fail_strict(draw, rate) == draw < rate

\* random.randint(1, 100) <= self.fail_rate
should_fail(draw, rate) == draw <= rate

\* send_request's call load_balancer.process_request(client_id, client_port,
\* client_ip, payload) against the signature process_request(self, client_id,
\* client_port, payload, client_ip=None): the parameters as bound.
process_request_args(client_ip, payload, client_port) ==
    [client_port |-> client_port, payload |-> client_ip, client_ip |-> payload]


(***************************************************************************)
(* State.                                                                  *)
(***************************************************************************)
VARIABLES
    servers,             \* the pool (app.servers, LoadBalancer.servers)
    algorithm,           \* LoadBalancer.algorithm
    fail_rate,           \* RealServer.fail_rate (one value for the run)
    env,                 \* the inputs the run draws its requests from
    counter,             \* LoadBalancer.counter
    status,              \* RealServer.status, per backend
    active_connections,  \* RealServer.active_connections, per backend
    connection_lock,     \* RealServer.connection_lock: "free", "handler", "worker"
    worker_tmp,          \* the value a worker loaded for its "-= 1", per backend
    executor,            \* tasks submitted to RealServer.executor and not finished
    workers,             \* tasks of RealServer.executor that a worker thread runs
    strhash,             \* hash() of the strings hashed so far in this process
    pc,                  \* where each send_request thread stands
    args,                \* process_request's parameters, per thread
    attempt,             \* 1: primary selection/forward, 2: the retry
    healthy,             \* select_server's local healthy_servers
    reads,               \* values loaded: min()'s keys, the counter, the count
    server,              \* process_request's local server
    redirected,          \* process_request's local redirected_server
    result,              \* what process_request returns (a server id or NoServer)
    error,               \* the exception select_server raised, or "none"
    forwards,            \* the POST /process calls of this call, in order
    others,              \* the other healthy backends when the retry selected
    events,              \* the log events this process_request call has emitted
    budget,              \* send_request calls the run may still start
    served,              \* sequential run: result of each finished request
    routed,              \* sequential run: <<client_ip, result>> pairs seen
    simulation_running,  \* app.simulation_running
    listening,           \* per backend: its werkzeug server accepts connections
    running,             \* RealServer.running, per backend
    hc,                  \* the HealthChecker thread: where it stands, its flag
    ctl,                 \* the thread serving /api/start and /api/stop
    metrics,             \* app.total_requests and app.successful_requests
    last_tick,           \* per backend: what its latest self-health tick wrote
    drawn                \* observed run: <<backend, draw>> of the latest tick

config_vars == <<servers, algorithm, fail_rate, env>>
backend_vars == <<status, active_connections, connection_lock, worker_tmp,
                  executor, workers>>
local_vars == <<args, attempt, healthy, reads, server, redirected, result,
                error, forwards, others, events>>
history_vars == <<served, routed>>
control_vars == <<simulation_running, listening, running, hc, ctl>>
tick_vars == <<last_tick, drawn>>

vars == <<config_vars, counter, backend_vars, strhash, pc, local_vars, budget,
          history_vars, control_vars, metrics, tick_vars>>

ServerIds == Range(servers)

\* The log events of one process_request call (log_callback and logger).
Logged(t, event) == events' = [events EXCEPT ![t] = Append(@, event)]

\* Mutants of Active: the check finds no simulation ever, or always one.
ActiveNever == FALSE
ActiveAlways == TRUE

\* The check "if simulation_running" of lines 100, 141 and 163.
Active == simulation_running

\* A HealthChecker as constructed and started (lines 115-121), about to
\* test its loop condition; MonitorOff: none has been created.
MonitorStarted == [pc |-> "check", i |-> 0, resp |-> "none", flag |-> TRUE]
MonitorOff == [pc |-> "off", i |-> 0, resp |-> "none", flag |-> FALSE]

\* The control thread between two requests: reply is its last answer, ops
\* the number of /api/start and /api/stop requests the run may still make.
Idle(reply, ops) == [pc |-> "idle", i |-> 0, reply |-> reply, ops |-> ops]

\* Every backend object there is, in the pool or not.
Slots == DOMAIN status

NoArgs == process_request_args(EmptyStr, EmptyStr, IntId(0))

\* The state once start_simulation has returned: n backends constructed
\* (active_connections 0, lock free, idle executor) and started, the
\* dispatcher constructed (counter 0), no request yet.  stat is the status
\* of each backend: "healthy" from the constructor, or what the ticks of
\* its self-health loop have made of it since.
Started(n, alg, rate, stat, calls, inputs) ==
    /\ servers = PoolOf(n)
    /\ algorithm = alg
    /\ fail_rate = rate
    /\ env = inputs
    /\ counter = 0
    /\ status = stat
    /\ active_connections = [s \in Range(PoolOf(n)) |-> 0]
    /\ connection_lock = [s \in Range(PoolOf(n)) |-> "free"]
    /\ worker_tmp = [s \in Range(PoolOf(n)) |-> 0]
    /\ executor = [s \in Range(PoolOf(n)) |-> 0]
    /\ workers = [s \in Range(PoolOf(n)) |-> 0]
    /\ simulation_running = TRUE
    /\ listening = [s \in Range(PoolOf(n)) |-> TRUE]
    /\ running = [s \in Range(PoolOf(n)) |-> TRUE]
    /\ hc = MonitorStarted
    /\ ctl = Idle("200", 0)
    /\ metrics = [total |-> 0, ok |-> 0]
    /\ last_tick = stat
    /\ drawn = << >>
    /\ events = [t \in Clients |-> << >>]
    /\ strhash = << >>
    /\ pc = [t \in Clients |-> "idle"]
    /\ args = [t \in Clients |-> NoArgs]
    /\ attempt = [t \in Clients |-> 1]
    /\ healthy = [t \in Clients |-> << >>]
    /\ reads = [t \in Clients |-> << >>]
    /\ server = [t \in Clients |-> NoServer]
    /\ redirected = [t \in Clients |-> NoServer]
    /\ result = [t \in Clients |-> NoServer]
    /\ error = [t \in Clients |-> "none"]
    /\ forwards = [t \in Clients |-> << >>]
    /\ others = [t \in Clients |-> {}]
    /\ budget = calls
    /\ served = << >>
    /\ routed = {}

\* The state once the app module is imported (app.py:34-43): no server, no
\* dispatcher, no simulation; n is the num_servers, alg the algorithm and
\* rate the fail_rate that the start requests of the run will carry.  The
\* per-backend variables hold what RealServer's constructor sets, for
\* backends that do not exist yet.
Imported(n, alg, rate, calls, ops, inputs) ==
    /\ servers = << >>
    /\ algorithm = alg
    /\ fail_rate = rate
    /\ env = inputs
    /\ counter = 0
    /\ status = [s \in Range(PoolOf(n)) |-> "healthy"]
    /\ active_connections = [s \in Range(PoolOf(n)) |-> 0]
    /\ connection_lock = [s \in Range(PoolOf(n)) |-> "free"]
    /\ worker_tmp = [s \in Range(PoolOf(n)) |-> 0]
    /\ executor = [s \in Range(PoolOf(n)) |-> 0]
    /\ workers = [s \in Range(PoolOf(n)) |-> 0]
    /\ simulation_running = FALSE
    /\ listening = [s \in Range(PoolOf(n)) |-> FALSE]
    /\ running = [s \in Range(PoolOf(n)) |-> FALSE]
    /\ hc = MonitorOff
    /\ ctl = Idle("none", ops)
    /\ metrics = [total |-> 0, ok |-> 0]
    /\ last_tick = [s \in Range(PoolOf(n)) |-> "healthy"]
    /\ drawn = << >>
    /\ events = [t \in Clients |-> << >>]
    /\ strhash = << >>
    /\ pc = [t \in Clients |-> "idle"]
    /\ args = [t \in Clients |-> NoArgs]
    /\ attempt = [t \in Clients |-> 1]
    /\ healthy = [t \in Clients |-> << >>]
    /\ reads = [t \in Clients |-> << >>]
    /\ server = [t \in Clients |-> NoServer]
    /\ redirected = [t \in Clients |-> NoServer]
    /\ result = [t \in Clients |-> NoServer]
    /\ error = [t \in Clients |-> "none"]
    /\ forwards = [t \in Clients |-> << >>]
    /\ others = [t \in Clients |-> {}]
    /\ budget = calls
    /\ served = << >>
    /\ routed = {}

(***************************************************************************)
(* send_request / process_request / select_server, one thread t.           *)
(***************************************************************************)

\* The backend the current attempt targets.
Selected(t) == IF attempt[t] = 1 THEN server[t] ELSE redirected[t]

\* Mutant of Exclude: the retry selection excludes nothing.
ExcludeNothing(t) == NoServer

\* select_server's exclude: None at line 42, the failed server at line 69.
Exclude(t) == IF attempt[t] = 1 THEN NoServer ELSE server[t]

\* select_server's client_identifier: "client_ip or client_port" for the
\* primary selection (line 42), client_port for the retry (line 69).
Identifier(t) ==
    IF attempt[t] = 1 /\ Truthy(args[t].client_ip)
    THEN args[t].client_ip
    ELSE args[t].client_port

\* send_request while simulation_running: reads the request's fields and
\* calls process_request.
SendRequest(t) ==
    /\ pc[t] = "idle"
    /\ budget > 0
    /\ Active
    /\ \E ip \in env.ips, payload \in env.payloads, port \in env.ports :
          args' = [args EXCEPT ![t] = process_request_args(ip, payload, IntId(port))]
    /\ budget' = budget - 1
    /\ pc' = [pc EXCEPT ![t] = "select"]
    /\ UNCHANGED <<config_vars, control_vars, metrics, tick_vars, counter, backend_vars, strhash, attempt,
                   healthy, reads, server, redirected, result, error,
                   forwards, history_vars, others, events>>

\* process_request ends with `value` (a server id, or NoServer for None).
Finish(t, value) ==
    /\ result' = [result EXCEPT ![t] = value]
    /\ pc' = [pc EXCEPT ![t] = "done"]

\* select_server returns s to process_request, which logs the assignment
\* (lines 49-51) or the redirect (lines 71-72) and goes on to the forward;
\* the locals of select_server are gone.
SelectReturns(t, s) ==
    /\ IF attempt[t] = 1
       THEN /\ server' = [server EXCEPT ![t] = s]
            /\ Logged(t, "assigned")
            /\ UNCHANGED redirected
       ELSE /\ redirected' = [redirected EXCEPT ![t] = s]
            /\ Logged(t, "redirect")
            /\ UNCHANGED server
    /\ healthy' = [healthy EXCEPT ![t] = << >>]

\* select_server, lines 93-95: build healthy_servers; with none, return
\* None, and process_request logs it and returns None (lines 43-47, 82-84).
BuildHealthy(t) ==
    /\ pc[t] = "select"
    /\ LET hs == healthy_servers(servers, status, Exclude(t))
       IN  /\ healthy' = [healthy EXCEPT ![t] = hs]
           /\ IF hs = << >>
              THEN /\ Finish(t, NoServer)
                   /\ Logged(t, IF attempt[t] = 1 THEN "no_server"
                                 ELSE "no_redirect")
              ELSE /\ pc' = [pc EXCEPT ![t] = "pick"]
                   /\ UNCHANGED <<result, events>>
    /\ others' = [others EXCEPT
                     ![t] = IF attempt[t] = 1 THEN {}
                            ELSE {s \in ServerIds :
                                     status[s] = "healthy" /\ s # server[t]}]
    /\ UNCHANGED <<config_vars, control_vars, metrics, tick_vars, counter, backend_vars, strhash, args, attempt,
                   reads, server, redirected, error, forwards, budget,
                   history_vars>>

\* round_robin, line 98: server = healthy_servers[self.counter % len(...)];
\* reads[t][1] is the counter value this selection indexed with.
RoundRobinIndex(t) ==
    /\ pc[t] = "pick"
    /\ algorithm = "round_robin"
    /\ SelectReturns(t, healthy[t][(counter % Len(healthy[t])) + 1])
    /\ reads' = [reads EXCEPT ![t] = <<counter>>]
    /\ pc' = [pc EXCEPT ![t] = "rr_load"]
    /\ UNCHANGED <<config_vars, control_vars, metrics, tick_vars, counter, backend_vars, strhash, args, attempt,
                   result, error, forwards, budget, history_vars, others>>

\* round_robin, line 99, self.counter += 1: the load (reads[t][2]) ...
RoundRobinLoad(t) ==
    /\ pc[t] = "rr_load"
    /\ reads' = [reads EXCEPT ![t] = Append(@, counter)]
    /\ pc' = [pc EXCEPT ![t] = "rr_store"]
    /\ UNCHANGED <<config_vars, control_vars, metrics, tick_vars, counter, backend_vars, strhash, args, attempt,
                   healthy, server, redirected, result, error, forwards,
                   budget, history_vars, others, events>>

\* Mutant of RoundRobinStore: the counter is stored back unchanged.
RoundRobinStoreSame(t) ==
    /\ pc[t] = "rr_store"
    /\ counter' = reads[t][2]
    /\ reads' = [reads EXCEPT ![t] = << >>]
    /\ pc' = [pc EXCEPT ![t] = "post"]
    /\ UNCHANGED <<config_vars, control_vars, metrics, tick_vars, backend_vars, strhash, args, attempt, healthy,
                   server, redirected, result, error, forwards, budget,
                   history_vars, others, events>>

\* ... and the store; then line 100 returns the server.
RoundRobinStore(t) ==
    /\ pc[t] = "rr_store"
    /\ counter' = reads[t][2] + 1
    /\ reads' = [reads EXCEPT ![t] = << >>]
    /\ pc' = [pc EXCEPT ![t] = "post"]
    /\ UNCHANGED <<config_vars, control_vars, metrics, tick_vars, backend_vars, strhash, args, attempt, healthy,
                   server, redirected, result, error, forwards, budget,
                   history_vars, others, events>>

\* least_connections, line 102: min() loads the key of one more list
\* element; after the last one it returns the first minimal element.
LeastConnectionsRead(t) ==
    /\ pc[t] = "pick"
    /\ algorithm = "least_connections"
    /\ LET k == Len(reads[t]) + 1
           vals == Append(reads[t], active_connections[healthy[t][k]])
       IN  IF k = Len(healthy[t])
           THEN /\ SelectReturns(t, healthy[t][ArgMinFirst(vals, 1, 1)])
                /\ reads' = [reads EXCEPT ![t] = << >>]
                /\ pc' = [pc EXCEPT ![t] = "post"]
           ELSE /\ reads' = [reads EXCEPT ![t] = vals]
                /\ UNCHANGED <<pc, server, redirected, healthy, events>>
    /\ UNCHANGED <<config_vars, control_vars, metrics, tick_vars, counter, backend_vars, strhash, args, attempt,
                   result, error, forwards, budget, history_vars, others>>

\* ip_hash, lines 104-106 and 109-110: a str with a '.' in it.  An exception
\* leaves select_server and is caught by process_request's line 86, which
\* returns None.
IpHashDotted(t) ==
    /\ pc[t] = "pick"
    /\ algorithm = "ip_hash"
    /\ HasDot(Identifier(t))
    /\ LET r == DottedIndex(Identifier(t), Len(healthy[t]))
       IN  IF r.err = "none"
           THEN /\ SelectReturns(t, healthy[t][r.idx + 1])
                /\ pc' = [pc EXCEPT ![t] = "post"]
                /\ UNCHANGED <<result, error>>
           ELSE /\ error' = [error EXCEPT ![t] = r.err]
                /\ Finish(t, NoServer)
                /\ Logged(t, "error")
                /\ healthy' = [healthy EXCEPT ![t] = << >>]
                /\ UNCHANGED <<server, redirected>>
    /\ UNCHANGED <<config_vars, control_vars, metrics, tick_vars, counter, backend_vars, strhash, args, attempt,
                   reads, forwards, budget, history_vars, others>>

\* ip_hash, lines 107-110: hash(client_identifier).  hash of a small int is
\* the int; hash of a str is some value fixed for the life of the process.
IpHashGeneric(t) ==
    /\ pc[t] = "pick"
    /\ algorithm = "ip_hash"
    /\ ~ HasDot(Identifier(t))
    /\ LET id == Identifier(t)
       IN  \E h \in (IF id.kind = "int" THEN {id.n}
                     ELSE IF id \in DOMAIN strhash THEN {strhash[id]}
                     ELSE HashVals) :
              /\ strhash' = IF id.kind = "int" THEN strhash
                            ELSE (id :> h) @@ strhash
              /\ SelectReturns(t, healthy[t][HashIndex(h, Len(healthy[t])) + 1])
    /\ pc' = [pc EXCEPT ![t] = "post"]
    /\ UNCHANGED <<config_vars, control_vars, metrics, tick_vars, counter, backend_vars, args, attempt, reads,
                   result, error, forwards, budget, history_vars, others>>

\* line 112: random.choice(healthy_servers), also for an unknown algorithm.
RandomChoice(t) ==
    /\ pc[t] = "pick"
    /\ algorithm = "random"
    /\ \E i \in 1 .. Len(healthy[t]) : SelectReturns(t, healthy[t][i])
    /\ pc' = [pc EXCEPT ![t] = "post"]
    /\ UNCHANGED <<config_vars, control_vars, metrics, tick_vars, counter, backend_vars, strhash, args, attempt,
                   reads, result, error, forwards, budget, history_vars, others>>

(***************************************************************************)
(* The forward: requests.post(.../process, timeout=5), lines 54-59 and     *)
(* 73-78, and the backend's /process handler it reaches.  The backend's    *)
(* werkzeug server handles one request at a time.                          *)
(***************************************************************************)

\* Mutant of ForwardFailed: a failed retry selects yet another backend.
ForwardFailedAgain(t) ==
    /\ attempt' = [attempt EXCEPT ![t] = 2]
    /\ pc' = [pc EXCEPT ![t] = "select"]
    /\ Logged(t, "failure")
    /\ UNCHANGED result

\* What process_request does when a forward raised RequestException: after
\* the primary attempt, lines 67-69 log it and select again with
\* exclude=server; raised inside the handler of line 66 (the retry), the
\* exception reaches line 86, is logged and the call returns None.
ForwardFailed(t) ==
    IF attempt[t] = 1
    THEN /\ attempt' = [attempt EXCEPT ![t] = 2]
         /\ pc' = [pc EXCEPT ![t] = "select"]
         /\ Logged(t, "failure")
         /\ UNCHANGED result
    ELSE /\ Finish(t, NoServer)
         /\ Logged(t, "error")
         /\ UNCHANGED attempt

\* The connection fails (refused, reset, no listener): no handler runs.
ForwardRefused(t) ==
    /\ pc[t] = "post"
    /\ forwards' = [forwards EXCEPT
                       ![t] = Append(@, [srv |-> Selected(t), out |-> "refused"])]
    /\ ForwardFailed(t)
    /\ UNCHANGED <<config_vars, control_vars, metrics, tick_vars, counter, backend_vars, strhash, args, healthy,
                   reads, server, redirected, error, budget, history_vars, others>>

\* Mutant of LockFree: the critical sections are entered without the lock.
LockIgnored(s) == TRUE

\* "with self.connection_lock" can be entered.
LockFree(s) == connection_lock[s] = "free"

\* The handler of the targeted backend, lines 84-85: takes connection_lock
\* and loads active_connections for the "+= 1".
HandlerLoad(t) ==
    /\ pc[t] = "post"
    /\ listening[Selected(t)]
    /\ LockFree(Selected(t))
    /\ connection_lock' = [connection_lock EXCEPT ![Selected(t)] = "handler"]
    /\ reads' = [reads EXCEPT ![t] = <<active_connections[Selected(t)]>>]
    /\ pc' = [pc EXCEPT ![t] = "handler"]
    /\ UNCHANGED <<config_vars, control_vars, metrics, tick_vars, counter, status, active_connections,
                   worker_tmp, executor, workers, strhash, args, attempt,
                   healthy, server, redirected, result, error, forwards,
                   budget, history_vars, others, events>>

\* The handler stores the incremented count and releases the lock (line
\* 85), submits process_in_background to the executor (line 111), where an
\* idle worker thread takes it at once and it waits in the queue otherwise,
\* and answers (line 113).  The answer reaches the dispatcher (out = "ack":
\* response.json() is the acknowledgment, whose server_id the call returns;
\* the primary attempt logs the response, lines 62-63, the retry returns it
\* unlogged, lines 78-81) or the 5 s timeout expires first (out =
\* "timeout": RequestException).
HandlerStore(t, out) ==
    /\ pc[t] = "handler"
    /\ LET s == Selected(t)
       IN  /\ active_connections' =
                  [active_connections EXCEPT ![s] = reads[t][1] + 1]
           /\ connection_lock' = [connection_lock EXCEPT ![s] = "free"]
           /\ executor' = [executor EXCEPT ![s] = @ + 1]
           /\ workers' = [workers EXCEPT
                             ![s] = IF @ < max_workers THEN @ + 1 ELSE @]
           /\ forwards' = [forwards EXCEPT
                              ![t] = Append(@, [srv |-> s, out |-> out])]
           /\ IF out = "ack"
              THEN /\ Finish(t, s)
                   /\ IF attempt[t] = 1 THEN Logged(t, "response")
                      ELSE UNCHANGED events
                   /\ UNCHANGED attempt
              ELSE ForwardFailed(t)
    /\ reads' = [reads EXCEPT ![t] = << >>]
    /\ UNCHANGED <<config_vars, control_vars, metrics, tick_vars, counter, status, worker_tmp, strhash, args,
                   healthy, server, redirected, error, budget, history_vars, others>>

HandlerAck(t) == HandlerStore(t, "ack")
HandlerTimeout(t) == HandlerStore(t, "timeout")

\* process_in_background, lines 89-109: a submitted task leaves its try
\* body, by the return of line 103 (how = "ok") or through the except of
\* line 104 (how = "error"); either way its finally takes connection_lock
\* and loads active_connections for the "-= 1".
BackgroundLoad(s, how) ==
    /\ workers[s] > 0
    /\ connection_lock[s] # "worker"
    /\ how \in {"ok", "error"}
    /\ LockFree(s)
    /\ connection_lock' = [connection_lock EXCEPT ![s] = "worker"]
    /\ worker_tmp' = [worker_tmp EXCEPT ![s] = active_connections[s]]
    /\ UNCHANGED <<config_vars, control_vars, metrics, tick_vars, counter, status, active_connections, executor,
                   workers, strhash, pc, local_vars, budget, history_vars>>

BackgroundOk(s) == BackgroundLoad(s, "ok")
BackgroundError(s) == BackgroundLoad(s, "error")

\* Mutant of BackgroundStore: the worker thread ends with its task and
\* leaves the queue alone.
BackgroundStoreQuit(s) ==
    /\ connection_lock[s] = "worker"
    /\ workers[s] > 0
    /\ active_connections' =
           [active_connections EXCEPT ![s] = worker_tmp[s] - 1]
    /\ connection_lock' = [connection_lock EXCEPT ![s] = "free"]
    /\ executor' = [executor EXCEPT ![s] = @ - 1]
    /\ workers' = [workers EXCEPT ![s] = @ - 1]
    /\ worker_tmp' = [worker_tmp EXCEPT ![s] = 0]
    /\ UNCHANGED <<config_vars, control_vars, metrics, tick_vars, counter,
                   status, strhash, pc, local_vars, budget, history_vars>>

\* ... stores the decremented count, releases the lock, and the task is
\* finished; its worker thread takes the next task of the queue, if any.
BackgroundStore(s) ==
    /\ connection_lock[s] = "worker"
    /\ workers[s] > 0
    /\ active_connections' =
           [active_connections EXCEPT ![s] = worker_tmp[s] - 1]
    /\ connection_lock' = [connection_lock EXCEPT ![s] = "free"]
    /\ executor' = [executor EXCEPT ![s] = @ - 1]
    /\ workers' = [workers EXCEPT
                      ![s] = IF executor[s] > @ THEN @ ELSE @ - 1]
    /\ worker_tmp' = [worker_tmp EXCEPT ![s] = 0]
    /\ UNCHANGED <<config_vars, control_vars, metrics, tick_vars, counter,
                   status, strhash, pc, local_vars,
                   budget, history_vars>>

\* update_status, lines 62-69: one tick of a backend's self-health loop,
\* with one of the draws the run considers.
update_status(s) ==
    /\ running[s]
    /\ \E draw \in env.draws :
          LET st == IF should_fail(draw, fail_rate) THEN "down" ELSE "healthy"
          IN  /\ status' = [status EXCEPT ![s] = st]
              /\ last_tick' = [last_tick EXCEPT ![s] = st]
              /\ drawn' = IF env.history THEN <<s, draw>> ELSE drawn
    /\ UNCHANGED <<config_vars, control_vars, metrics, counter,
                   active_connections, connection_lock, worker_tmp, executor,
                   workers, strhash, pc, local_vars, budget, history_vars>>

\* process_request has returned and send_request updates the metrics
\* (lines 179-182) and answers; the thread is free for the next request.
\* args[t].payload holds the client_ip the request carried (see
\* process_request_args).
Return(t) ==
    /\ pc[t] = "done"
    /\ metrics' = IF env.metrics
                  THEN [total |-> metrics.total + 1,
                        ok |-> metrics.ok + (IF result[t] = NoServer THEN 0 ELSE 1)]
                  ELSE metrics
    /\ IF env.history
       THEN /\ served' = Append(served, result[t])
            /\ routed' = routed \cup {<<args[t].payload, result[t]>>}
       ELSE UNCHANGED <<served, routed>>
    /\ pc' = [pc EXCEPT ![t] = "idle"]
    /\ args' = [args EXCEPT ![t] = NoArgs]
    /\ attempt' = [attempt EXCEPT ![t] = 1]
    /\ server' = [server EXCEPT ![t] = NoServer]
    /\ redirected' = [redirected EXCEPT ![t] = NoServer]
    /\ result' = [result EXCEPT ![t] = NoServer]
    /\ error' = [error EXCEPT ![t] = "none"]
    /\ forwards' = [forwards EXCEPT ![t] = << >>]
    /\ others' = [others EXCEPT ![t] = {}]
    /\ events' = [events EXCEPT ![t] = << >>]
    /\ UNCHANGED <<config_vars, control_vars, tick_vars, counter, backend_vars,
                   strhash, healthy, reads, budget>>

(***************************************************************************)
(* The control plane: /api/start and /api/stop, served by one thread, and  *)
(* send_request when no simulation runs.  A start creates backends         *)
(* 0 .. Len(status)-1 on the ports 8000 + i.                               *)
(***************************************************************************)

\* start_simulation, lines 100-102: a simulation is running.
StartRejected ==
    /\ ctl.pc = "idle"
    /\ ctl.ops > 0
    /\ Active
    /\ ctl' = Idle("400", ctl.ops - 1)
    /\ UNCHANGED <<config_vars, metrics, tick_vars, counter, backend_vars,
                   strhash, pc, local_vars, budget, history_vars,
                   simulation_running, listening, running, hc>>

\* start_simulation, lines 104-118: the metrics are reset and servers is a
\* new empty list.  The HealthChecker of the run before, if it has not
\* ended yet, goes on with that run's list and objects, which this state
\* holds no longer.  (The model starts a run only between two requests.)
StartBegin ==
    /\ ctl.pc = "idle"
    /\ ctl.ops > 0
    /\ ~ Active
    /\ \A t \in Clients : pc[t] = "idle"
    /\ metrics' = [total |-> 0, ok |-> 0]
    /\ servers' = << >>
    /\ hc' = MonitorOff
    /\ ctl' = [pc |-> "starting", i |-> 0, reply |-> "none",
               ops |-> ctl.ops - 1]
    /\ UNCHANGED <<algorithm, fail_rate, env, tick_vars, counter, backend_vars,
                   strhash, pc, local_vars, budget, history_vars,
                   simulation_running, listening, running>>

\* lines 119-123, one round of the loop: RealServer(...) and server.start()
\* (server.py:119-137) for backend ctl.i.  Its port is free (bound = FALSE)
\* or taken, by a backend that still listens or by another process: then
\* start raises (server.py:121-122), before anything of this backend runs,
\* and start_simulation answers 500 (lines 131-133).
StartServer(bound) ==
    /\ ctl.pc = "starting"
    /\ ctl.i < Cardinality(Slots)
    /\ listening[ctl.i] => bound
    /\ LET s == ctl.i
       IN  IF bound
           THEN /\ ctl' = Idle("500", ctl.ops)
                /\ UNCHANGED <<servers, backend_vars, listening, running,
                               last_tick>>
           ELSE /\ status' = [status EXCEPT ![s] = "healthy"]
                /\ active_connections' = [active_connections EXCEPT ![s] = 0]
                /\ connection_lock' = [connection_lock EXCEPT ![s] = "free"]
                /\ worker_tmp' = [worker_tmp EXCEPT ![s] = 0]
                /\ executor' = [executor EXCEPT ![s] = 0]
                /\ workers' = [workers EXCEPT ![s] = 0]
                /\ running' = [running EXCEPT ![s] = TRUE]
                /\ listening' = [listening EXCEPT ![s] = TRUE]
                /\ last_tick' = [last_tick EXCEPT ![s] = "healthy"]
                /\ servers' = Append(servers, s)
                /\ ctl' = [ctl EXCEPT !.i = @ + 1]
    /\ UNCHANGED <<algorithm, fail_rate, env, metrics, drawn, counter, strhash,
                   pc, local_vars, budget, history_vars, simulation_running,
                   hc>>

StartServerBound == StartServer(TRUE)
StartServerFree == StartServer(FALSE)

\* lines 125-130: the LoadBalancer (counter 0) and its HealthChecker are
\* created and started, and the simulation runs.
StartFinish ==
    /\ ctl.pc = "starting"
    /\ ctl.i = Cardinality(Slots)
    /\ counter' = 0
    /\ hc' = MonitorStarted
    /\ simulation_running' = TRUE
    /\ ctl' = Idle("200", ctl.ops)
    /\ UNCHANGED <<config_vars, metrics, tick_vars, backend_vars, strhash, pc,
                   local_vars, budget, history_vars, listening, running>>

\* stop_simulation, lines 141-143: no simulation is running.
StopRejected ==
    /\ ctl.pc = "idle"
    /\ ctl.ops > 0
    /\ ~ Active
    /\ ctl' = Idle("400", ctl.ops - 1)
    /\ UNCHANGED <<config_vars, metrics, tick_vars, counter, backend_vars,
                   strhash, pc, local_vars, budget, history_vars,
                   simulation_running, listening, running, hc>>

\* lines 146-147: load_balancer.stop_health_checker(), that is
\* HealthChecker.stop (load_balancer.py:123-125): the flag is cleared and
\* the event set, and stop returns.
StopBegin ==
    /\ ctl.pc = "idle"
    /\ ctl.ops > 0
    /\ Active
    /\ hc' = [hc EXCEPT !.flag = FALSE]
    /\ ctl' = [pc |-> "stopping", i |-> 1, reply |-> "none",
               ops |-> ctl.ops - 1]
    /\ UNCHANGED <<config_vars, metrics, tick_vars, counter, backend_vars,
                   strhash, pc, local_vars, budget, history_vars,
                   simulation_running, listening, running>>

\* lines 149-150, RealServer.stop (server.py:139-150) for servers[ctl.i]:
\* running is cleared; server.shutdown() returns once serve_forever has
\* left its loop, after the request it was handling, and the listener is
\* closed; the self-health loop is joined.
StopListener ==
    /\ ctl.pc = "stopping"
    /\ ctl.i <= Len(servers)
    /\ LET s == servers[ctl.i]
       IN  /\ \A t \in Clients : ~ (pc[t] = "handler" /\ Selected(t) = s)
           /\ running' = [running EXCEPT ![s] = FALSE]
           /\ listening' = [listening EXCEPT ![s] = FALSE]
    /\ ctl' = [ctl EXCEPT !.pc = "draining"]
    /\ UNCHANGED <<config_vars, metrics, tick_vars, counter, backend_vars,
                   strhash, pc, local_vars, budget, history_vars,
                   simulation_running, hc>>

\* Mutant of StopDrain: the executor is shut down without waiting.
StopDrainNoWait ==
    /\ ctl.pc = "draining"
    /\ ctl' = [ctl EXCEPT !.pc = "stopping", !.i = @ + 1]
    /\ UNCHANGED <<config_vars, metrics, tick_vars, counter, backend_vars,
                   strhash, pc, local_vars, budget, history_vars,
                   simulation_running, listening, running, hc>>

\* server.py:151, executor.shutdown(wait=True): returns when every task
\* submitted to the executor has finished; stop returns.
StopDrain ==
    /\ ctl.pc = "draining"
    /\ executor[servers[ctl.i]] = 0
    /\ ctl' = [ctl EXCEPT !.pc = "stopping", !.i = @ + 1]
    /\ UNCHANGED <<config_vars, metrics, tick_vars, counter, backend_vars,
                   strhash, pc, local_vars, budget, history_vars,
                   simulation_running, listening, running, hc>>

\* lines 152-154: every backend is stopped.
StopFinish ==
    /\ ctl.pc = "stopping"
    /\ ctl.i > Len(servers)
    /\ simulation_running' = FALSE
    /\ ctl' = Idle("200", ctl.ops)
    /\ UNCHANGED <<config_vars, metrics, tick_vars, counter, backend_vars,
                   strhash, pc, local_vars, budget, history_vars, listening,
                   running, hc>>

\* send_request, lines 163-165: no simulation is running.
SendRejected(t) ==
    /\ pc[t] = "idle"
    /\ budget > 0
    /\ ~ Active
    /\ budget' = budget - 1
    /\ UNCHANGED <<config_vars, control_vars, metrics, tick_vars, counter,
                   backend_vars, strhash, pc, local_vars, history_vars>>

(***************************************************************************)
(* The HealthChecker thread (load_balancer.py:127-144).                    *)
(***************************************************************************)

\* line 128, the loop condition.
HcCheck ==
    /\ hc.pc = "check"
    /\ hc' = IF ~ hc.flag THEN [hc EXCEPT !.pc = "ended"]
             ELSE IF servers = << >> THEN [hc EXCEPT !.pc = "sleep"]
             ELSE [hc EXCEPT !.pc = "probe", !.i = 1]
    /\ UNCHANGED <<config_vars, metrics, tick_vars, counter, backend_vars,
                   strhash, pc, local_vars, budget, history_vars,
                   simulation_running, listening, running, ctl>>

\* After the probe of servers[hc.i] (lines 140-142 log its status): the
\* next server of the list, or the wait of line 144.
HcAdvance ==
    hc' = IF hc.i < Len(servers)
          THEN [hc EXCEPT !.pc = "probe", !.i = @ + 1, !.resp = "none"]
          ELSE [hc EXCEPT !.pc = "sleep", !.i = 0, !.resp = "none"]

\* line 131: the backend's health_check (server.py:72-79) answers 200 with
\* the status it has now.
HcAnswer ==
    /\ hc.pc = "probe"
    /\ listening[servers[hc.i]]
    /\ hc' = [hc EXCEPT !.pc = "answered", !.resp = status[servers[hc.i]]]
    /\ UNCHANGED <<config_vars, metrics, tick_vars, counter, backend_vars,
                   strhash, pc, local_vars, budget, history_vars,
                   simulation_running, listening, running, ctl>>

\* lines 132-134: server.status = response_data.get('status', 'down').
HcWrite ==
    /\ hc.pc = "answered"
    /\ status' = [status EXCEPT ![servers[hc.i]] = hc.resp]
    /\ HcAdvance
    /\ UNCHANGED <<config_vars, metrics, tick_vars, counter,
                   active_connections, connection_lock, worker_tmp, executor,
                   workers, strhash, pc, local_vars, budget, history_vars,
                   simulation_running, listening, running, ctl>>

\* Mutant of HcFail: the exception ends the thread.
HcFailQuit ==
    /\ hc.pc = "probe"
    /\ status' = [status EXCEPT ![servers[hc.i]] = "down"]
    /\ hc' = [hc EXCEPT !.pc = "ended"]
    /\ UNCHANGED <<config_vars, metrics, tick_vars, counter,
                   active_connections, connection_lock, worker_tmp, executor,
                   workers, strhash, pc, local_vars, budget, history_vars,
                   simulation_running, listening, running, ctl>>

\* lines 135-138: the get timed out or found no listener
\* (RequestException), or the answer was not a 200: server.status = "down".
HcFail ==
    /\ hc.pc = "probe"
    /\ status' = [status EXCEPT ![servers[hc.i]] = "down"]
    /\ HcAdvance
    /\ UNCHANGED <<config_vars, metrics, tick_vars, counter,
                   active_connections, connection_lock, worker_tmp, executor,
                   workers, strhash, pc, local_vars, budget, history_vars,
                   simulation_running, listening, running, ctl>>

\* line 144: the wait ends, by its timeout or because the event is set.
HcWake ==
    /\ hc.pc = "sleep"
    /\ hc' = [hc EXCEPT !.pc = "check"]
    /\ UNCHANGED <<config_vars, metrics, tick_vars, counter, backend_vars,
                   strhash, pc, local_vars, budget, history_vars,
                   simulation_running, listening, running, ctl>>

(***************************************************************************)
(* Spec: a running simulation of PoolSize backends with NumClients         *)
(* concurrent send_request threads, the backends' self-health loops and    *)
(* their background workers.                                               *)
(***************************************************************************)
\* Only ip_hash reads the client identifier: the other algorithms get one
\* request shape.
ConcurrentInputs(alg) ==
    [ips |-> {Localhost},
     payloads |-> IF alg = "ip_hash" THEN {TestRequest, HostName}
                  ELSE {TestRequest},
     ports |-> {40000}, history |-> FALSE, metrics |-> FALSE,
     draws |-> TickDraws]

Init ==
    \E alg \in Algorithms, rate \in FailRates :
        Started(PoolSize, alg, rate, [s \in Range(PoolOf(PoolSize)) |-> "healthy"],
                MaxRequests, ConcurrentInputs(alg))

Next ==
    \/ \E t \in Clients : SendRequest(t)
    \/ \E t \in Clients : BuildHealthy(t)
    \/ \E t \in Clients : RoundRobinIndex(t)
    \/ \E t \in Clients : RoundRobinLoad(t)
    \/ \E t \in Clients : RoundRobinStore(t)
    \/ \E t \in Clients : LeastConnectionsRead(t)
    \/ \E t \in Clients : IpHashDotted(t)
    \/ \E t \in Clients : IpHashGeneric(t)
    \/ \E t \in Clients : RandomChoice(t)
    \/ \E t \in Clients : ForwardRefused(t)
    \/ \E t \in Clients : HandlerLoad(t)
    \/ \E t \in Clients : HandlerAck(t)
    \/ \E t \in Clients : HandlerTimeout(t)
    \/ \E t \in Clients : Return(t)
    \/ \E s \in ServerIds : BackgroundOk(s)
    \/ \E s \in ServerIds : BackgroundError(s)
    \/ \E s \in ServerIds : BackgroundStore(s)
    \/ \E s \in ServerIds : update_status(s)

Spec == Init /\ [][Next]_vars

(***************************************************************************)
(* SpecOne: the same threads, ticks and workers with num_servers = 1, so   *)
(* that every request meets the others at one backend.                     *)
(***************************************************************************)
InitOne ==
    \E alg \in Algorithms, rate \in FailRates :
        Started(1, alg, rate, [s \in Range(PoolOf(1)) |-> "healthy"],
                MaxRequests, ConcurrentInputs(alg))

SpecOne == InitOne /\ [][Next]_vars

(***************************************************************************)
(* SpecSeq: one client thread sending its requests one after the other to  *)
(* a pool of NumServers backends whose self-health loops and background    *)
(* workers run concurrently with it; forwards may fail.                    *)
(***************************************************************************)
Statuses(n) == [Range(PoolOf(n)) -> {"healthy", "down"}]

SeqInputs(alg) ==
    [ips |-> {Localhost},
     payloads |-> IF alg = "ip_hash"
                  THEN {TenNet, HostName}
                  ELSE {TestRequest},
     ports |-> {40000}, history |-> FALSE, metrics |-> FALSE,
     draws |-> TickDraws]

InitSeq ==
    \E alg \in Algorithms, rate \in FailRates :
        Started(NumServers, alg, rate,
                [s \in Range(PoolOf(NumServers)) |-> "healthy"],
                MaxRequests, SeqInputs(alg))

NextSeq ==
    \/ SendRequest(1)
    \/ BuildHealthy(1)
    \/ RoundRobinIndex(1)
    \/ RoundRobinLoad(1)
    \/ RoundRobinStore(1)
    \/ LeastConnectionsRead(1)
    \/ IpHashDotted(1)
    \/ IpHashGeneric(1)
    \/ RandomChoice(1)
    \/ ForwardRefused(1)
    \/ HandlerLoad(1)
    \/ HandlerAck(1)
    \/ HandlerTimeout(1)
    \/ Return(1)
    \/ \E s \in ServerIds : BackgroundOk(s)
    \/ \E s \in ServerIds : BackgroundError(s)
    \/ \E s \in ServerIds : BackgroundStore(s)
    \/ \E s \in ServerIds : update_status(s)

SpecSeq == InitSeq /\ [][NextSeq]_vars

(***************************************************************************)
(* SpecRR and SpecHash: one client thread, requests one after the other,   *)
(* between two ticks of the self-health loops: the statuses are what the   *)
(* earlier ticks made of them and stay so, no forward fails, and the       *)
(* results of the finished requests are recorded.  SpecRR runs under       *)
(* round_robin, SpecHash under ip_hash.                                    *)
(***************************************************************************)
RRInputs ==
    [ips |-> {Localhost}, payloads |-> {TestRequest}, ports |-> {40000},
     history |-> TRUE, metrics |-> FALSE, draws |-> TickDraws]

HashInputs ==
    [ips |-> {Localhost, TenNet},
     payloads |-> {TestRequest, EmptyStr, Localhost, TenNet, HostName, FiveParts},
     ports |-> {40000, 40001}, history |-> TRUE, metrics |-> FALSE,
     draws |-> TickDraws]

\* A backend can only be down under a fail_rate above 0.
InitRR ==
    \E stat \in Statuses(NumServers), rate \in FailRates \ {0} :
        Started(NumServers, "round_robin", rate, stat, SeqRequests, RRInputs)

InitHash ==
    \E stat \in Statuses(NumServers), rate \in FailRates \ {0} :
        Started(NumServers, "ip_hash", rate, stat, MaxRequests, HashInputs)

NextRR ==
    \/ SendRequest(1)
    \/ BuildHealthy(1)
    \/ RoundRobinIndex(1)
    \/ RoundRobinLoad(1)
    \/ RoundRobinStore(1)
    \/ HandlerLoad(1)
    \/ HandlerAck(1)
    \/ Return(1)
    \/ \E s \in ServerIds : BackgroundOk(s)
    \/ \E s \in ServerIds : BackgroundError(s)
    \/ \E s \in ServerIds : BackgroundStore(s)

NextHash ==
    \/ SendRequest(1)
    \/ BuildHealthy(1)
    \/ IpHashDotted(1)
    \/ IpHashGeneric(1)
    \/ HandlerLoad(1)
    \/ HandlerAck(1)
    \/ Return(1)
    \/ \E s \in ServerIds : BackgroundOk(s)
    \/ \E s \in ServerIds : BackgroundError(s)
    \/ \E s \in ServerIds : BackgroundStore(s)

SpecRR == InitRR /\ [][NextRR]_vars

SpecHash == InitHash /\ [][NextHash]_vars

(***************************************************************************)
(* SpecPool: one backend and one client thread sending PoolRequests        *)
(* requests one after the other, each acknowledged at once, so that the    *)
(* tasks pile up in the backend's executor beyond its max_workers threads. *)
(* FairPool adds the scheduling the threads get: a handler that holds the  *)
(* lock goes on to release it, a task that can enter its finally does, and *)
(* a task in its finally completes it.                                     *)
(***************************************************************************)
PoolInputs ==
    [ips |-> {Localhost}, payloads |-> {TestRequest}, ports |-> {40000},
     history |-> FALSE, metrics |-> FALSE, draws |-> TickDraws]

InitPool ==
    Started(1, "round_robin", 0, [s \in Range(PoolOf(1)) |-> "healthy"],
            PoolRequests, PoolInputs)

NextPool ==
    \/ SendRequest(1)
    \/ BuildHealthy(1)
    \/ RoundRobinIndex(1)
    \/ RoundRobinLoad(1)
    \/ RoundRobinStore(1)
    \/ HandlerLoad(1)
    \/ HandlerAck(1)
    \/ Return(1)
    \/ \E s \in ServerIds : BackgroundOk(s)
    \/ \E s \in ServerIds : BackgroundError(s)
    \/ \E s \in ServerIds : BackgroundStore(s)

SpecPool == InitPool /\ [][NextPool]_vars

FairPool ==
    /\ SpecPool
    /\ WF_vars(HandlerAck(1))
    /\ \A s \in Range(PoolOf(1)) :
          /\ WF_vars(BackgroundOk(s) \/ BackgroundError(s))
          /\ WF_vars(BackgroundStore(s))

(***************************************************************************)
(* SpecTick: the self-health loops of NumServers running backends, every   *)
(* draw of random.randint(1, 100) considered and recorded, under the       *)
(* fail rates at and next to the ends of 0..100 and one in between.        *)
(***************************************************************************)
TickInputs ==
    [ips |-> {Localhost}, payloads |-> {TestRequest}, ports |-> {40000},
     history |-> TRUE, metrics |-> FALSE, draws |-> Draws]

InitTick ==
    \E rate \in TickRates :
        Started(NumServers, "round_robin", rate,
                [s \in Range(PoolOf(NumServers)) |-> "healthy"], 0, TickInputs)

NextTick == \E s \in ServerIds : update_status(s)

SpecTick == InitTick /\ [][NextTick]_vars

(***************************************************************************)
(* SpecLife: the app from its import on: start and stop requests, one      *)
(* client thread, the self-health loops and the background workers of the  *)
(* backends a start has created.  The HealthChecker is created and stopped *)
(* but does not run here: under fail_rate 50 the ticks alone make every    *)
(* status of a running backend possible at every moment.                   *)
(* SpecMonitor: start and stop requests, the self-health loops and the     *)
(* HealthChecker thread, without client requests.                          *)
(***************************************************************************)
LifeInputs ==
    [ips |-> {Localhost}, payloads |-> {TestRequest}, ports |-> {40000},
     history |-> FALSE, metrics |-> TRUE, draws |-> TickDraws]

InitLife ==
    Imported(PoolSize, "random", 50, LifeRequests, MaxOps, LifeInputs)

InitMonitor ==
    \E rate \in FailRates :
        Imported(PoolSize, "random", rate, 0, MaxOps, LifeInputs)

NextControl ==
    \/ StartRejected
    \/ StartBegin
    \/ StartServerBound
    \/ StartServerFree
    \/ StartFinish
    \/ StopRejected
    \/ StopBegin
    \/ StopListener
    \/ StopDrain
    \/ StopFinish

NextLife ==
    \/ NextControl
    \/ SendRejected(1)
    \/ SendRequest(1)
    \/ BuildHealthy(1)
    \/ RandomChoice(1)
    \/ ForwardRefused(1)
    \/ HandlerLoad(1)
    \/ HandlerAck(1)
    \/ HandlerTimeout(1)
    \/ Return(1)
    \/ \E s \in Slots : BackgroundOk(s)
    \/ \E s \in Slots : BackgroundError(s)
    \/ \E s \in Slots : BackgroundStore(s)
    \/ \E s \in Slots : update_status(s)

NextMonitor ==
    \/ NextControl
    \/ HcCheck
    \/ HcAnswer
    \/ HcWrite
    \/ HcFail
    \/ HcWake
    \/ \E s \in Slots : update_status(s)

SpecLife == InitLife /\ [][NextLife]_vars

SpecMonitor == InitMonitor /\ [][NextMonitor]_vars

(***************************************************************************)
(* The claims.                                                             *)
(***************************************************************************)

\* The step of thread t in which select_server builds healthy_servers, and
\* the step in which it chooses the backend it returns.
BuildStep(t) == pc[t] = "select" /\ pc'[t] # "select"
PickStep(t) == pc[t] = "pick" /\ pc'[t] \in {"post", "rr_load"}

\* The backends whose status is "healthy" in this state, x left out.
HealthyNow(x) == {s \in ServerIds : status[s] = "healthy" /\ s # x}

\* C1: every select_server call (primary and retry, any algorithm) builds
\* its list from exactly the backends that are healthy at that moment and
\* are not the excluded one, returns None when there is none, and otherwise
\* returns a member of that list.
C1_SelectionSound ==
    [][\A t \in Clients :
          /\ BuildStep(t) =>
                /\ Range(healthy'[t]) = HealthyNow(Exclude(t))
                /\ HealthyNow(Exclude(t)) = {} =>
                      /\ pc'[t] = "done"
                      /\ result'[t] = NoServer
                      /\ Selected(t)' = NoServer
          /\ (pc[t] = "pick" /\ pc'[t] = "pick") => healthy'[t] = healthy[t]
          /\ PickStep(t) =>
                /\ Selected(t)' \in Range(healthy[t])
                /\ Selected(t)' # Exclude(t)
      ]_vars

\* C1 witness: a retry selection has returned a backend while the excluded
\* backend is healthy.
C1_Witness ==
    \E t \in Clients :
        /\ pc[t] = "post"
        /\ attempt[t] = 2
        /\ redirected[t] \in others[t]
        /\ status[server[t]] = "healthy"

\* C2: one process_request call forwards at most twice; the first forward
\* goes to the primary backend, the second only after the first failed and
\* never to the same backend; a failed second forward ends the call with
\* None.
C2_AtMostOneRetry ==
    \A t \in Clients :
        LET f == forwards[t]
        IN  /\ Len(f) <= 2
            /\ Len(f) >= 1 => f[1].srv = server[t]
            /\ attempt[t] = 2 => (Len(f) >= 1 /\ f[1].out # "ack")
            /\ Len(f) = 2 =>
                  /\ attempt[t] = 2
                  /\ f[2].srv = redirected[t]
                  /\ f[2].srv # f[1].srv
                  /\ pc[t] = "done"
                  /\ f[2].out # "ack" => result[t] = NoServer

\* C2 witness: a call whose retry failed too.
C2_Witness ==
    \E t \in Clients :
        /\ pc[t] = "done"
        /\ Len(forwards[t]) = 2
        /\ forwards[t][2].out # "ack"

\* C3: when the primary forward failed, then with exactly one other healthy
\* backend at the retry selection the retry is forwarded to it, and if that
\* forward succeeds the call returns its response; with no other healthy
\* backend the call returns None and no second forward is made.
C3_RetryOnce ==
    \A t \in Clients :
        (pc[t] = "done" /\ attempt[t] = 2) =>
            /\ others[t] = {} =>
                  (result[t] = NoServer /\ Len(forwards[t]) = 1)
            /\ Cardinality(others[t]) = 1 =>
                  /\ Len(forwards[t]) = 2
                  /\ forwards[t][2].srv \in others[t]
                  /\ forwards[t][2].out = "ack" => result[t] \in others[t]

\* C3 witness: the retry succeeded on the only other healthy backend.
C3_Witness ==
    \E t \in Clients :
        /\ pc[t] = "done"
        /\ attempt[t] = 2
        /\ Cardinality(others[t]) = 1
        /\ result[t] \in others[t]

\* C4: a primary selection that finds no healthy backend ends the call at
\* once with None: no forward, no retry, no active connection count
\* changed; the finished call does nothing more.
C4_NoHealthyBackend ==
    [][\A t \in Clients :
          /\ (BuildStep(t) /\ attempt[t] = 1 /\ HealthyNow(NoServer) = {}) =>
                /\ pc'[t] = "done"
                /\ result'[t] = NoServer
                /\ attempt'[t] = 1
                /\ forwards'[t] = << >>
                /\ active_connections' = active_connections
                /\ executor' = executor
          /\ pc[t] = "done" =>
                \/ pc'[t] = "idle"
                \/ /\ pc'[t] = "done"
                   /\ forwards'[t] = forwards[t]
                   /\ attempt'[t] = attempt[t]
                   /\ result'[t] = result[t]
      ]_vars

\* C4 witness: a call that ended so, with every backend down.
C4_Witness ==
    \E t \in Clients :
        /\ pc[t] = "done"
        /\ attempt[t] = 1
        /\ server[t] = NoServer
        /\ error[t] = "none"
        /\ forwards[t] = << >>
        /\ \A s \in ServerIds : status[s] = "down"

\* The i-th backend of set E in pool order, and how often s occurs in seq.
Nth(E, i) == CHOOSE s \in E : Cardinality({x \in E : x < s}) = i - 1
Count(s, seq) == Cardinality({i \in DOMAIN seq : seq[i] = s})

\* C5: under round_robin, with k >= 1 eligible backends that stay as they
\* are, the m requests finished so far were served cyclically in pool order,
\* each backend floor(m/k) or ceil(m/k) times; 3 healthy backends serve 6
\* requests as 0,1,2,0,1,2.
C5_RoundRobinFair ==
    LET E == HealthyNow(NoServer)
        k == Cardinality(E)
        m == Len(served)
    IN  k >= 1 =>
            /\ \A i \in 1 .. m : served[i] = Nth(E, ((i - 1) % k) + 1)
            /\ \A s \in E : Count(s, served) \in {m \div k, (m + k - 1) \div k}
            /\ (k = 3 /\ m = 6) => served = <<0, 1, 2, 0, 1, 2>>

\* C5 witness: six requests served by three healthy backends.
C5_Witness ==
    /\ Len(served) = 6
    /\ Cardinality(HealthyNow(NoServer)) = 3

\* C6: under concurrent round_robin selections no two selections in
\* progress index with the same counter value, and the value an increment
\* stores is based on the current counter (no increment is lost).
C6_CounterAtomic ==
    /\ \A t1, t2 \in Clients :
          (/\ t1 # t2
           /\ pc[t1] \in {"rr_load", "rr_store"}
           /\ pc[t2] \in {"rr_load", "rr_store"}) => reads[t1][1] # reads[t2][1]
    /\ \A t \in Clients : pc[t] = "rr_store" => reads[t][2] = counter

\* C7: least_connections returns the eligible backend whose count, as min()
\* read it, is minimal, the first such in pool order; with backends 0 and 1
\* eligible, one request in flight on 0 and none on 1, it returns 1.
C7_LeastConnections ==
    [][\A t \in Clients :
          (algorithm = "least_connections" /\ PickStep(t)) =>
              LET hs == healthy[t]
                  vals == Append(reads[t], active_connections[hs[Len(hs)]])
              IN  /\ \E i \in 1 .. Len(hs) :
                        /\ Selected(t)' = hs[i]
                        /\ \A j \in 1 .. Len(hs) :
                              /\ vals[i] <= vals[j]
                              /\ j < i => vals[i] < vals[j]
                  /\ (hs = <<0, 1>> /\ executor[0] = 1 /\ executor[1] = 0) =>
                        Selected(t)' = 1
      ]_vars

\* C7 witness: backends 0 and 1 healthy, one request in flight on 0, and the
\* primary selection has just returned 1.
C7_Witness ==
    \E t \in Clients :
        /\ algorithm = "least_connections"
        /\ pc[t] = "post"
        /\ attempt[t] = 1
        /\ server[t] = 1
        /\ HealthyNow(NoServer) = {0, 1}
        /\ executor[0] = 1
        /\ active_connections[0] = 1
        /\ active_connections[1] = 0

\* C8: under ip_hash with an unchanged eligible set, two send_request calls
\* with the same client_ip that are both served are served by the same
\* backend, whatever their payloads are.
C8_StickyByClientIp ==
    \A p, q \in routed :
        (p[1] = q[1] /\ p[2] # NoServer /\ q[2] # NoServer) => p[2] = q[2]

\* Four dot-separated integers.
IsQuad(id) ==
    /\ id.kind = "str"
    /\ Len(id.parts) = 4
    /\ \A i \in 1 .. 4 : id.parts[i].num

\* C9: under ip_hash every selection over a non-empty list returns a member
\* of it and raises nothing: indexed by the quad sum for four dot-separated
\* integers, by the generic hash for every other identifier.
C9_IpHashTotal ==
    [][\A t \in Clients :
          (algorithm = "ip_hash" /\ pc[t] = "pick") =>
              LET id == Identifier(t)
                  n == Len(healthy[t])
              IN  /\ pc'[t] = "post"
                  /\ error'[t] = "none"
                  /\ Selected(t)' \in Range(healthy[t])
                  /\ IF IsQuad(id)
                     THEN Selected(t)' = healthy[t][(QuadSum(id.parts, 1) % n) + 1]
                     ELSE IF id.kind = "int"
                     THEN Selected(t)' = healthy[t][(id.n % n) + 1]
                     ELSE /\ id \in DOMAIN strhash'
                          /\ Selected(t)' = healthy[t][(strhash'[id] % n) + 1]
      ]_vars

\* C10: in every state each backend's active_connections is the number of
\* requests it accepted whose background task has not finished, and is
\* never negative.
C10_BalancedAccounting ==
    \A s \in ServerIds :
        /\ active_connections[s] = executor[s]
        /\ active_connections[s] >= 0

\* C10 witness: two requests are at the same backend at once, one in the
\* handler's critical section and one waiting for the lock, while an
\* earlier task is still in flight there.
C10_Witness ==
    \E t1, t2 \in Clients :
        /\ pc[t1] = "handler"
        /\ pc[t2] = "post"
        /\ Selected(t1) = Selected(t2)
        /\ connection_lock[Selected(t1)] = "handler"

\* C11: every task a backend has accepted is eventually completed and
\* uncounted, also when more tasks are pending than the executor has worker
\* threads: whenever tasks are pending, the backend later has none pending
\* and its active_connections is back at 0.
C11_EventuallyDrained ==
    \A s \in Range(PoolOf(1)) :
        (executor[s] > 0) ~> (executor[s] = 0 /\ active_connections[s] = 0)

\* C11 witness: more tasks are pending than the pool has worker threads.
C11_Witness ==
    \E s \in ServerIds :
        /\ executor[s] > max_workers
        /\ workers[s] = max_workers
        /\ active_connections[s] = executor[s]

\* C12: the tick a running backend made last, with draw d, has set its
\* status to down under fail_rate 100 and to healthy under fail_rate 0,
\* whatever d in 1..100 is, and under a rate in between to down exactly
\* when d <= fail_rate.
C12_FailureInjection ==
    drawn # << >> =>
        LET s == drawn[1]
            d == drawn[2]
        IN  /\ status[s] \in {"down", "healthy"}
            /\ fail_rate = 100 => status[s] = "down"
            /\ fail_rate = 0 => status[s] = "healthy"
            /\ (0 < fail_rate /\ fail_rate < 100) =>
                  (status[s] = "down" <=> d <= fail_rate)

\* C12 witness: under fail_rate 100 a tick has drawn 100.
C12_Witness ==
    /\ drawn # << >>
    /\ fail_rate = 100
    /\ drawn[2] = 100
    /\ status[drawn[1]] = "down"

\* What a rejected control request leaves as it is: the pool, the
\* backends, the dispatcher, the health monitor, the metrics and the flag.
RunUntouched ==
    UNCHANGED <<config_vars, counter, backend_vars, listening, running, hc,
                metrics, simulation_running, pc, local_vars>>

\* A step in which the control thread has answered a request at once.
AnsweredAtOnce == ctl.pc = "idle" /\ ctl'.pc = "idle" /\ ctl'.ops < ctl.ops

\* C13: a start request that arrives while a simulation is running is
\* answered with 400 and never begins to start anything; pool, backends,
\* dispatcher, health monitor and metrics stay as they are and the
\* simulation keeps running.
C13_AlreadyRunning ==
    [][(ctl.pc = "idle" /\ simulation_running) =>
          /\ ctl'.pc # "starting"
          /\ AnsweredAtOnce =>
                /\ ctl'.reply = "400"
                /\ RunUntouched
                /\ simulation_running'
      ]_vars

\* C13 witness: a start was rejected in a run that has counted a request.
C13_Witness ==
    /\ ctl.pc = "idle"
    /\ ctl.reply = "400"
    /\ simulation_running
    /\ metrics.total > 0
    /\ hc = MonitorStarted
    /\ \A s \in Slots : listening[s]

\* C14: while no simulation is running, a stop request is answered with 400
\* and stops nothing, and a send_request is answered without selecting or
\* forwarding; backends, health monitor and metrics stay as they are.
C14_NotRunning ==
    [][~ simulation_running =>
          /\ ctl.pc = "idle" =>
                /\ ctl'.pc \notin {"stopping", "draining"}
                /\ AnsweredAtOnce => (ctl'.reply = "400" /\ RunUntouched)
          /\ \A t \in Clients :
                pc[t] = "idle" =>
                    /\ pc'[t] = "idle"
                    /\ budget' < budget => RunUntouched
      ]_vars

\* C14 witness: after a completed stop, a stop request and a send_request
\* have been rejected.
C14_Witness ==
    /\ ctl.pc = "idle"
    /\ ctl.reply = "400"
    /\ ~ simulation_running
    /\ Len(servers) = Cardinality(Slots)
    /\ \A s \in Slots : ~ listening[s] /\ ~ running[s]
    /\ budget = 0
    /\ metrics.total < LifeRequests
    /\ \A t \in Clients : pc[t] = "idle"

\* A step of the HealthChecker thread.
MonitorStep == (hc'.pc # hc.pc \/ hc'.i # hc.i) /\ hc'.pc # "off"

\* C15: a tick of the health monitor probes the backends of the pool in
\* order; an answered probe reports the backend's status and that status
\* is what the monitor writes; a failed probe writes down and the loop goes
\* on with the next backend or with the wait for the next tick.
C15_ProbeRule ==
    [][MonitorStep =>
          LET s == servers[hc.i]
              Onward == IF hc.i < Len(servers)
                        THEN hc'.pc = "probe" /\ hc'.i = hc.i + 1
                        ELSE hc'.pc = "sleep"
          IN  /\ hc.pc = "check" =>
                    IF hc.flag /\ servers # << >>
                    THEN hc'.pc = "probe" /\ hc'.i = 1
                    ELSE hc'.pc \in {"sleep", "ended"}
              /\ (hc.pc = "probe" /\ hc'.pc = "answered") =>
                    (hc'.resp = status[s] /\ hc'.i = hc.i /\ status' = status)
              /\ (hc.pc = "probe" /\ hc'.pc # "answered") =>
                    /\ status' = [status EXCEPT ![s] = "down"]
                    /\ Onward
              /\ hc.pc = "answered" =>
                    /\ status' = [status EXCEPT ![s] = hc.resp]
                    /\ Onward
              /\ hc.pc = "sleep" => hc'.pc = "check"
      ]_vars

\* C15 witness: the probe of the first backend failed although it listens
\* and its own tick said healthy, and the monitor probes the second.
C15_Witness ==
    /\ hc.pc = "probe"
    /\ hc.i = 2
    /\ listening[servers[1]]
    /\ last_tick[servers[1]] = "healthy"
    /\ status[servers[1]] = "down"

\* C16: once HealthChecker.stop has returned to stop_simulation, the
\* monitor loop has ended (it has been joined), so that the monitor makes
\* no probe and no status write while the backends are torn down or later.
C16_MonitorJoined == ~ hc.flag => hc.pc \in {"off", "ended"}

\* The last element of a non-empty sequence.
Last(seq) == seq[Len(seq)]

\* C17: a process_request call that has ended has logged each selection it
\* made, the assignment and the redirect, and, after them, its outcome.
C17_EveryOutcomeLogged ==
    \A t \in Clients :
        pc[t] = "done" =>
            /\ server[t] # NoServer =>
                  \E i \in DOMAIN events[t] : events[t][i] = "assigned"
            /\ redirected[t] # NoServer =>
                  \E i \in DOMAIN events[t] : events[t][i] = "redirect"
            /\ events[t] # << >>
            /\ Last(events[t]) \in
                  {"response", "no_server", "no_redirect", "error"}

\* C18: the status of every backend is what its own latest self-health
\* tick wrote (healthy before the first one).
C18_StatusSingleWriter ==
    \A s \in Slots : status[s] = last_tick[s]

\* The backends on which a call of RealServer.stop has returned.
Stopped ==
    {s \in Slots : /\ s \in ServerIds
                    /\ ~ running[s]
                    /\ ~ (ctl.pc = "draining" /\ servers[ctl.i] = s)}

\* C19: while stop waits for the executor the listener is closed already,
\* and on a backend whose stop has returned nothing listens, no accepted
\* task is unfinished and active_connections is 0.
C19_StopDrains ==
    /\ ctl.pc = "draining" => ~ listening[servers[ctl.i]]
    /\ \A s \in Stopped :
          /\ ~ listening[s]
          /\ executor[s] = 0
          /\ connection_lock[s] = "free"
          /\ active_connections[s] = 0

\* C19 witness: the stop of the first backend has returned, and the client
\* still holds the acknowledgment that backend gave it.
C19_Witness ==
    \E t \in Clients :
        /\ ctl.pc = "stopping"
        /\ ctl.i = 2
        /\ pc[t] = "done"
        /\ result[t] = servers[1]
        /\ servers[1] \in Stopped

\* C20: when no start or stop is in progress and no simulation is running,
\* no backend listens and no self-health loop runs.
C20_NoOrphans ==
    (ctl.pc = "idle" /\ ~ simulation_running) =>
        \A s \in Slots : ~ listening[s] /\ ~ running[s]

\* A step that changes the counter is the end of a round_robin selection
\* that has picked a backend.
CounterFrame ==
    counter' # counter =>
        /\ algorithm = "round_robin"
        /\ \E t \in Clients :
              /\ pc[t] = "rr_store"
              /\ pc'[t] = "post"
              /\ Selected(t) # NoServer

\* C21: over every interleaving of process_request calls the counter never
\* decreases, and only a round_robin selection that returns a backend
\* changes it.
C21_CounterMonotonic == [][counter' >= counter /\ CounterFrame]_vars

=============================================================================
